---- MODULE Spec2Model ----
(***************************************************************************)
(* Cherry-pick service of vdemeester/workflows-experiments.                *)
(*                                                                         *)
(* Service.ProcessBranches launches one goroutine per target branch; each  *)
(* goroutine runs Service.ProcessBranch, a straight-line pipeline of calls *)
(* to two ports: GitHubClient (GetPR, FindExistingPR, CreatePR) and        *)
(* GitRunner (Run).  Every port call is one atomic step of the goroutine   *)
(* that makes it; the code between two port calls touches only the         *)
(* goroutine's own locals and is folded into the step of the call before   *)
(* it.  What a port answers is chosen by the environment.                  *)
(*                                                                         *)
(* Go pointers (to github.PullRequest, bool, Result) and the error         *)
(* interface are options: Nil, or Some(v).                                 *)
(***************************************************************************)
EXTENDS Naturals, Sequences, FiniteSets, TLC

VARIABLES
    cfg,            \* the Config handed to ProcessBranches
    phase,          \* the ProcessBranches call: "idle", "waiting" (wg.Wait), "returned"
    wg,             \* sync.WaitGroup counter
    results,        \* results slice of ProcessBranches
    pc,             \* pc[i]: the port call goroutine i makes next, or "done"
    frame,          \* frame[i]: locals of goroutine i's ProcessBranch call
    log,            \* log[i]: the port calls goroutine i has made, with their answers
    priorSuccess,   \* priorSuccess[i]: when goroutine i began, a ProcessBranch for its
                    \* target branch had already returned with NewPR set
    followUps,      \* remote: followUps[b] = number of follow-up PRs cherry-pick-N-to-b -> b
    checkedOut,     \* working tree: the branch HEAD points to
    cancelled,      \* ctx.Done() is closed
    main            \* cmd/cherry-pick run(): its position, its flags, the remote calls
                    \* of its CommentPoster, and the error it returns

vars == <<cfg, phase, wg, results, pc, frame, log, priorSuccess,
          followUps, checkedOut, cancelled, main>>

-----------------------------------------------------------------------------
(* Bounds of the model *)

MaxBranches == 2        \* longest cfg.Branches
MaxFollowUps == 2       \* the remote accepts at most this many follow-ups per target

(* Values the tests use *)

PRNumber == 123
TargetBranches == {"release-1.0", "release-2.0"}
MergeCommitSHA == "abc123"
InitialHead == "main"

-----------------------------------------------------------------------------
(* Options *)

Nil == {}
Some(v) == {v}
Deref(p) == CHOOSE v \in p : TRUE

(* Errors the ports return *)

RemoteErr == Some("remote error")
LookupErr == Some("lookup error")       \* of PullRequests.List, to tell it from the others
CtxErr == Some("context canceled")
GitErr == Some("exit status 1")

Errorf(msg, err) == Some(msg \o ": " \o Deref(err))

SeqsUpTo(S, n) == UNION {[1..k -> S] : k \in 0..n}

(* The code only copies and compares target branch names, so a run is the  *)
(* same up to renaming them: the lists start with the first name.          *)
BranchLists ==
    {branches \in SeqsUpTo(TargetBranches, MaxBranches) :
        branches = <<>> \/ branches[1] = "release-1.0"}

(* The goroutines ProcessBranches may launch, by index *)
Goroutines == 1..MaxBranches

-----------------------------------------------------------------------------
(* Result *)

NewResult(targetBranch) ==
    [Branch |-> targetBranch, Success |-> FALSE, ExistingPR |-> Nil,
     NewPR |-> Nil, Error |-> Nil, ErrorMessage |-> ""]

CherryPickBranch(prNumber, targetBranch) ==
    "cherry-pick-" \o ToString(prNumber) \o "-to-" \o targetBranch

(* A follow-up pull request of the remote *)
PullRequest(head, base, number) == [Head |-> head, Base |-> base, Number |-> number]


-----------------------------------------------------------------------------
(* ProcessBranch: the Result of each return statement *)

(* A slip: the failed GetPR is reported in the message alone *)
GetPRFailedMessageOnly(result, prNumber, err) ==
    [result EXCEPT !.ErrorMessage = "Failed to fetch PR #" \o ToString(prNumber)
                                    \o ": " \o Deref(err)]

GetPRFailed(result, prNumber, err) ==
    [result EXCEPT !.Error = err,
                   !.ErrorMessage = "Failed to fetch PR #" \o ToString(prNumber)
                                    \o ": " \o Deref(err)]

(* A slip: the not-merged return sets Error as the other failures do *)
NotMergedWithError(result, prNumber, pr) ==
    [result EXCEPT !.Error = Some("PR is not merged"),
                   !.ErrorMessage = "PR #" \o ToString(prNumber)
                                    \o " is not merged yet (state: " \o pr.State
                                    \o "). Cherry-pick requires merged PRs."]

NotMerged(result, prNumber, pr) ==
    [result EXCEPT !.ErrorMessage = "PR #" \o ToString(prNumber)
                                    \o " is not merged yet (state: " \o pr.State
                                    \o "). Cherry-pick requires merged PRs."]

(* A slip: the existing follow-up is recorded, the success flag is not *)
AlreadyExistsUnflagged(result, existingPR) ==
    [result EXCEPT !.ExistingPR = existingPR]

(* A slip: the existing follow-up is reported as a new one *)
AlreadyExistsAsNew(result, existingPR) ==
    [result EXCEPT !.Success = TRUE, !.NewPR = existingPR]

AlreadyExists(result, existingPR) ==
    [result EXCEPT !.Success = TRUE, !.ExistingPR = existingPR]

GitFailed(result, err) ==
    [result EXCEPT !.Error = err, !.ErrorMessage = Deref(err)]

CreateFailed(result, err) ==
    [result EXCEPT !.Error = err,
                   !.ErrorMessage = "Failed to create pull request: " \o Deref(err)]

Created(result, newPR) ==
    [result EXCEPT !.Success = TRUE, !.NewPR = newPR]

(* A slip: an absent merged flag passes for merged *)
IsMergedUnlessFalse(pr) == pr.Merged = Nil \/ Deref(pr.Merged)

(* if pr.Merged == nil || !*pr.Merged { return } *)
IsMerged(pr) == pr.Merged # Nil /\ Deref(pr.Merged)

(* A slip: the lookup's answer is not looked at *)
ExistingNeverFound(existingPR) == FALSE

(* if existingPR != nil { return } *)
ExistingFound(existingPR) == existingPR # Nil

-----------------------------------------------------------------------------
(* performGitOperations: the commands, in the order the code runs them *)

ConfigUserName == "config user.name"
ConfigUserEmail == "config user.email"
Fetch == "fetch"
Checkout == "checkout -b"
CherryPick == "cherry-pick -m 1"
CherryPickAbort == "cherry-pick --abort"
Push == "push"

GitArgs(step, c, targetBranch, cherryPickBranch, mergeCommit) ==
    CASE step = ConfigUserName  -> <<"config", "user.name", c.GitUserName>>
      [] step = ConfigUserEmail -> <<"config", "user.email", c.GitUserEmail>>
      [] step = Fetch           -> <<"fetch", "origin", targetBranch>>
      [] step = Checkout        -> <<"checkout", "-b", cherryPickBranch,
                                     "origin/" \o targetBranch>>
      [] step = CherryPick      -> <<"cherry-pick", "-m", "1", mergeCommit>>
      [] step = CherryPickAbort -> <<"cherry-pick", "--abort">>
      [] step = Push            -> <<"push", "origin", cherryPickBranch>>

(* The error performGitOperations returns when `step` failed with err *)
GitError(step, targetBranch, err) ==
    CASE step = ConfigUserName  -> Errorf("failed to configure git user name", err)
      [] step = ConfigUserEmail -> Errorf("failed to configure git user email", err)
      [] step = Fetch           -> Errorf("target branch '" \o targetBranch
                                          \o "' does not exist or cannot be fetched", err)
      [] step = Checkout        -> Errorf("failed to create cherry-pick branch", err)
      [] step = CherryPick      -> Errorf("cherry-pick failed due to conflicts or other errors", err)
      [] step = Push            -> Errorf("failed to push cherry-pick branch", err)

(* A slip: the committer email is never configured *)
performGitOperationsWithoutEmail(step, err) ==
    CASE step = ConfigUserName  -> IF err # Nil THEN "return" ELSE Fetch
      [] step = ConfigUserEmail -> IF err # Nil THEN "return" ELSE Fetch
      [] step = Fetch           -> IF err # Nil THEN "return" ELSE Checkout
      [] step = Checkout        -> IF err # Nil THEN "return" ELSE CherryPick
      [] step = CherryPick      -> IF err # Nil THEN CherryPickAbort ELSE Push
      [] step = CherryPickAbort -> "return"
      [] step = Push            -> IF err # Nil THEN "return" ELSE "CreatePR"

(* A slip: the error of the fetch is dropped *)
performGitOperationsFetchUnchecked(step, err) ==
    CASE step = ConfigUserName  -> IF err # Nil THEN "return" ELSE ConfigUserEmail
      [] step = ConfigUserEmail -> IF err # Nil THEN "return" ELSE Fetch
      [] step = Fetch           -> Checkout
      [] step = Checkout        -> IF err # Nil THEN "return" ELSE CherryPick
      [] step = CherryPick      -> IF err # Nil THEN CherryPickAbort ELSE Push
      [] step = CherryPickAbort -> "return"
      [] step = Push            -> IF err # Nil THEN "return" ELSE "CreatePR"

(* A slip: a failed cherry-pick returns without the abort *)
performGitOperationsWithoutAbort(step, err) ==
    CASE step = ConfigUserName  -> IF err # Nil THEN "return" ELSE ConfigUserEmail
      [] step = ConfigUserEmail -> IF err # Nil THEN "return" ELSE Fetch
      [] step = Fetch           -> IF err # Nil THEN "return" ELSE Checkout
      [] step = Checkout        -> IF err # Nil THEN "return" ELSE CherryPick
      [] step = CherryPick      -> IF err # Nil THEN "return" ELSE Push
      [] step = CherryPickAbort -> "return"
      [] step = Push            -> IF err # Nil THEN "return" ELSE "CreatePR"

(* A slip: a failed push is tried again *)
performGitOperationsRetryPush(step, err) ==
    CASE step = ConfigUserName  -> IF err # Nil THEN "return" ELSE ConfigUserEmail
      [] step = ConfigUserEmail -> IF err # Nil THEN "return" ELSE Fetch
      [] step = Fetch           -> IF err # Nil THEN "return" ELSE Checkout
      [] step = Checkout        -> IF err # Nil THEN "return" ELSE CherryPick
      [] step = CherryPick      -> IF err # Nil THEN CherryPickAbort ELSE Push
      [] step = CherryPickAbort -> "return"
      [] step = Push            -> IF err # Nil THEN Push ELSE "CreatePR"

(* A slip: the error of the push is dropped *)
performGitOperationsPushUnchecked(step, err) ==
    CASE step = ConfigUserName  -> IF err # Nil THEN "return" ELSE ConfigUserEmail
      [] step = ConfigUserEmail -> IF err # Nil THEN "return" ELSE Fetch
      [] step = Fetch           -> IF err # Nil THEN "return" ELSE Checkout
      [] step = Checkout        -> IF err # Nil THEN "return" ELSE CherryPick
      [] step = CherryPick      -> IF err # Nil THEN CherryPickAbort ELSE Push
      [] step = CherryPickAbort -> "return"
      [] step = Push            -> "CreatePR"

(* A slip: a failed push is cleaned up with the abort as well *)
performGitOperationsAbortAfterPush(step, err) ==
    CASE step = ConfigUserName  -> IF err # Nil THEN "return" ELSE ConfigUserEmail
      [] step = ConfigUserEmail -> IF err # Nil THEN "return" ELSE Fetch
      [] step = Fetch           -> IF err # Nil THEN "return" ELSE Checkout
      [] step = Checkout        -> IF err # Nil THEN "return" ELSE CherryPick
      [] step = CherryPick      -> IF err # Nil THEN CherryPickAbort ELSE Push
      [] step = CherryPickAbort -> "return"
      [] step = Push            -> IF err # Nil THEN CherryPickAbort ELSE "CreatePR"

(* Where performGitOperations goes after `step` answered err: the next      *)
(* command, "return" (return the wrapped error) or "CreatePR" (return nil). *)
performGitOperations(step, err) ==
    CASE step = ConfigUserName  -> IF err # Nil THEN "return" ELSE ConfigUserEmail
      [] step = ConfigUserEmail -> IF err # Nil THEN "return" ELSE Fetch
      [] step = Fetch           -> IF err # Nil THEN "return" ELSE Checkout
      [] step = Checkout        -> IF err # Nil THEN "return" ELSE CherryPick
      [] step = CherryPick      -> IF err # Nil THEN CherryPickAbort ELSE Push
      [] step = CherryPickAbort -> "return"
      [] step = Push            -> IF err # Nil THEN "return" ELSE "CreatePR"

-----------------------------------------------------------------------------
(* The ports' answers *)

Call(port, args, val, err) == [port |-> port, args |-> args, val |-> val, err |-> err]

(* GitHubClient.GetPR: a cancelled context fails the call *)
GetPRAnswers ==
    IF cancelled THEN {[val |-> Nil, err |-> CtxErr]}
    ELSE {[val |-> Nil, err |-> RemoteErr]}
         \cup {[val |-> Some([Merged |-> m, State |-> IF m = Some(TRUE) THEN "closed" ELSE "open",
                              MergeCommitSHA |-> MergeCommitSHA]),
                err |-> Nil] : m \in {Nil, Some(FALSE), Some(TRUE)}}

(* DefaultGitHubClient.FindExistingPR: the first pull request with this head and base *)
FirstMatch(head, base) ==
    IF followUps[base] > 0 THEN Some(PullRequest(head, base, 1)) ELSE Nil

FindExistingPRAnswers(head, base) ==
    IF cancelled THEN {[val |-> Nil, err |-> CtxErr]}
    ELSE {[val |-> Nil, err |-> LookupErr], [val |-> FirstMatch(head, base), err |-> Nil]}

(* GitHubClient.CreatePR *)
CreatePRAnswers(head, base) ==
    IF cancelled THEN {[val |-> Nil, err |-> CtxErr]}
    ELSE {[val |-> Nil, err |-> RemoteErr]}
         \cup (IF followUps[base] < MaxFollowUps
               THEN {[val |-> Some(PullRequest(head, base, followUps[base] + 1)), err |-> Nil]}
               ELSE {})

(* GitRunner.Run *)
RunAnswers == {Nil, GitErr}

(* The working tree after `git args` answered err *)
WorkingTree(head, args, err) ==
    IF err = Nil /\ args[1] = "checkout" THEN args[3] ELSE head


-----------------------------------------------------------------------------
(* State after construction: NewService, a Config, nothing running; the    *)
(* caller is at its call of ProcessBranches.                               *)

Config(branches) ==
    [PRNumber |-> PRNumber, Branches |-> branches, RepoOwner |-> "owner",
     RepoName |-> "repo", GitUserName |-> "Test Bot", GitUserEmail |-> "bot@test.com"]

(* run() at the line `at`, started with --comment-id and --issue-number *)
Main(at, commentID, issueNumber) ==
    [pc |-> at, commentID |-> commentID, issueNumber |-> issueNumber,
     calls |-> <<>>, posted |-> 0, err |-> Nil]

Init ==
    /\ cfg = Config(<<>>)
    /\ phase = "idle"
    /\ wg = 0
    /\ results = <<>>
    /\ pc = <<>>
    /\ frame = <<>>
    /\ log = <<>>
    /\ priorSuccess = <<>>
    /\ followUps = [b \in TargetBranches |-> 0]
    /\ checkedOut = InitialHead
    /\ cancelled = FALSE
    /\ main = Main("ProcessBranches", 0, 0)

-----------------------------------------------------------------------------
(* ProcessBranches *)

(* A slip: results collected in the order the goroutines finish *)
StoreResultInArrivalOrder(res, index, result) ==
    LET free == {j \in DOMAIN res : res[j] = Nil}
        first == CHOOSE j \in free : \A k \in free : j <= k
    IN  [res EXCEPT ![first] = Some(result)]

(* A slip: the closure uses the loop's variable, which has reached the     *)
(* last index when the goroutines run, in place of its own parameter       *)
StoreResultAtLoopVariable(res, index, result) ==
    [res EXCEPT ![Len(res)] = Some(result)]

(* results[index] = s.ProcessBranch(ctx, cfg, targetBranch) *)
StoreResult(res, index, result) == [res EXCEPT ![index] = Some(result)]

(* A slip: the first failure ends the whole fan-out, as an errgroup would; *)
(* the branches still running are reported failed with the same error.     *)
CompleteFailFast(i, result) ==
    IF result.Success
    THEN /\ results' = StoreResult(results, frame[i].index, result)
         /\ wg' = wg - 1
         /\ pc' = [pc EXCEPT ![i] = "done"]
    ELSE /\ results' = [j \in DOMAIN results |->
                          IF results[j] # Nil THEN results[j]
                          ELSE Some([result EXCEPT !.Branch = cfg.Branches[j]])]
         /\ wg' = 0
         /\ pc' = [j \in DOMAIN pc |-> "done"]

(* The goroutine's ProcessBranch returns `result`: the slot is written and *)
(* the deferred wg.Done() runs.                                            *)
Complete(i, result) ==
    /\ results' = StoreResult(results, frame[i].index, result)
    /\ wg' = wg - 1
    /\ pc' = [pc EXCEPT ![i] = "done"]

Goto(i, label) ==
    /\ pc' = [pc EXCEPT ![i] = label]
    /\ UNCHANGED <<results, wg>>

Record(i, port, args, val, err) ==
    log' = [log EXCEPT ![i] = Append(@, Call(port, args, val, err))]

(* ProcessBranches up to wg.Wait(): the results slice is made, and one     *)
(* goroutine per element of cfg.Branches is launched with its index and    *)
(* branch.  ProcessBranch begins with result = {Branch, Success: false},   *)
(* which is NewResult(targetBranch) until the return that fills it.        *)
ProcessBranches(branches) ==
    /\ phase = "idle"
    /\ cfg' = Config(branches)
    /\ phase' = "waiting"
    /\ results' = [i \in 1..Len(branches) |-> Nil]
    /\ wg' = Len(branches)
    /\ pc' = [i \in 1..Len(branches) |-> "GetPR"]
    /\ frame' = [i \in 1..Len(branches) |->
                    [index |-> i, targetBranch |-> branches[i],
                     mergeCommit |-> "", cherryPickBranch |-> "", err |-> Nil]]
    /\ log' = [i \in 1..Len(branches) |-> <<>>]
    /\ priorSuccess' = [i \in 1..Len(branches) |-> FALSE]
    /\ UNCHANGED <<followUps, checkedOut, cancelled, main>>

(* A slip: ProcessBranches returns without the wg.Wait() *)
WaitSkipped ==
    /\ phase = "waiting"
    /\ phase' = "returned"
    /\ UNCHANGED <<cfg, wg, results, pc, frame, log, priorSuccess,
                   followUps, checkedOut, cancelled, main>>

(* wg.Wait() returns once the counter is zero; ProcessBranches returns results *)
Wait ==
    /\ phase = "waiting"
    /\ wg = 0
    /\ phase' = "returned"
    /\ UNCHANGED <<cfg, wg, results, pc, frame, log, priorSuccess,
                   followUps, checkedOut, cancelled, main>>

(* The caller calls again, with a new context: the remote and the working *)
(* tree are as the calls before left them.                                 *)
Rerun ==
    /\ phase = "returned"
    /\ phase' = "idle"
    /\ cancelled' = FALSE
    /\ UNCHANGED <<cfg, wg, results, pc, frame, log, priorSuccess,
                   followUps, checkedOut, main>>

(* The caller's context is cancelled, or its deadline passes *)
Cancel ==
    /\ phase = "waiting"
    /\ ~cancelled
    /\ cancelled' = TRUE
    /\ UNCHANGED <<cfg, phase, wg, results, pc, frame, log, priorSuccess,
                   followUps, checkedOut, main>>

-----------------------------------------------------------------------------
(* ProcessBranch, one action per port call *)

GetPR(i) ==
    /\ i \in DOMAIN pc
    /\ pc[i] = "GetPR"
    /\ \E a \in GetPRAnswers :
         /\ Record(i, "github",
                   <<"GetPR", cfg.RepoOwner, cfg.RepoName, ToString(cfg.PRNumber)>>,
                   a.val, a.err)
         /\ IF a.err # Nil
            THEN /\ Complete(i, GetPRFailed(NewResult(frame[i].targetBranch), cfg.PRNumber,
                                         a.err))
                 /\ UNCHANGED frame
            ELSE IF ~IsMerged(Deref(a.val))
            THEN /\ Complete(i, NotMerged(NewResult(frame[i].targetBranch), cfg.PRNumber,
                                       Deref(a.val)))
                 /\ UNCHANGED frame
            ELSE /\ Goto(i, "FindExistingPR")
                 /\ frame' = [frame EXCEPT
                        ![i].mergeCommit = Deref(a.val).MergeCommitSHA,
                        ![i].cherryPickBranch =
                            CherryPickBranch(cfg.PRNumber, frame[i].targetBranch)]
    /\ priorSuccess' = [priorSuccess EXCEPT ![i] = followUps[frame[i].targetBranch] > 0]
    /\ UNCHANGED <<cfg, phase, followUps, checkedOut, cancelled, main>>

(* A slip: an error of the lookup ends the pipeline, as an error of GetPR  *)
(* does                                                                    *)
FindExistingPRFatal(i) ==
    /\ i \in DOMAIN pc
    /\ pc[i] = "FindExistingPR"
    /\ \E a \in FindExistingPRAnswers(frame[i].cherryPickBranch, frame[i].targetBranch) :
         /\ Record(i, "github",
                   <<"FindExistingPR", cfg.RepoOwner, cfg.RepoName,
                     frame[i].cherryPickBranch, frame[i].targetBranch>>,
                   a.val, a.err)
         /\ IF a.err # Nil
            THEN Complete(i, GitFailed(NewResult(frame[i].targetBranch), a.err))
            ELSE IF ExistingFound(a.val)
            THEN Complete(i, AlreadyExists(NewResult(frame[i].targetBranch), a.val))
            ELSE Goto(i, ConfigUserName)
    /\ UNCHANGED <<cfg, phase, frame, priorSuccess, followUps, checkedOut, cancelled, main>>

FindExistingPR(i) ==
    /\ i \in DOMAIN pc
    /\ pc[i] = "FindExistingPR"
    /\ \E a \in FindExistingPRAnswers(frame[i].cherryPickBranch, frame[i].targetBranch) :
         /\ Record(i, "github",
                   <<"FindExistingPR", cfg.RepoOwner, cfg.RepoName,
                     frame[i].cherryPickBranch, frame[i].targetBranch>>,
                   a.val, a.err)
         /\ IF ExistingFound(a.val)
            THEN Complete(i, AlreadyExists(NewResult(frame[i].targetBranch), a.val))
            ELSE Goto(i, ConfigUserName)
    /\ UNCHANGED <<cfg, phase, frame, priorSuccess, followUps, checkedOut, cancelled, main>>

(* s.git.Run(args...) for the command at `step` *)
Run(i, step) ==
    /\ \E err \in RunAnswers :
         LET args == GitArgs(step, cfg, frame[i].targetBranch,
                             frame[i].cherryPickBranch, frame[i].mergeCommit)
             next == performGitOperations(step, err)
             \* the error of the failed cherry-pick outlives the abort
             failed == IF step = CherryPickAbort THEN frame[i].err
                       ELSE GitError(step, frame[i].targetBranch, err)
         IN  /\ Record(i, "git", args, Nil, err)
             /\ checkedOut' = WorkingTree(checkedOut, args, err)
             /\ IF next = "return"
                THEN /\ Complete(i, GitFailed(NewResult(frame[i].targetBranch), failed))
                     /\ UNCHANGED frame
                ELSE /\ Goto(i, next)
                     /\ frame' = [frame EXCEPT ![i].err =
                                    IF next = CherryPickAbort THEN failed ELSE @]
    /\ UNCHANGED <<cfg, phase, priorSuccess, followUps, cancelled, main>>

GitConfigUserName(i) ==
    /\ i \in DOMAIN pc
    /\ pc[i] = ConfigUserName
    /\ Run(i, ConfigUserName)

GitConfigUserEmail(i) ==
    /\ i \in DOMAIN pc
    /\ pc[i] = ConfigUserEmail
    /\ Run(i, ConfigUserEmail)

GitFetch(i) ==
    /\ i \in DOMAIN pc
    /\ pc[i] = Fetch
    /\ Run(i, Fetch)

GitCheckout(i) ==
    /\ i \in DOMAIN pc
    /\ pc[i] = Checkout
    /\ Run(i, Checkout)

GitCherryPick(i) ==
    /\ i \in DOMAIN pc
    /\ pc[i] = CherryPick
    /\ Run(i, CherryPick)

GitCherryPickAbort(i) ==
    /\ i \in DOMAIN pc
    /\ pc[i] = CherryPickAbort
    /\ Run(i, CherryPickAbort)

GitPush(i) ==
    /\ i \in DOMAIN pc
    /\ pc[i] = Push
    /\ Run(i, Push)

CreatePR(i) ==
    /\ i \in DOMAIN pc
    /\ pc[i] = "CreatePR"
    /\ \E a \in CreatePRAnswers(frame[i].cherryPickBranch, frame[i].targetBranch) :
         /\ Record(i, "github",
                   <<"CreatePR", cfg.RepoOwner, cfg.RepoName,
                     frame[i].cherryPickBranch, frame[i].targetBranch>>,
                   a.val, a.err)
         /\ IF a.err # Nil
            THEN /\ Complete(i, CreateFailed(NewResult(frame[i].targetBranch), a.err))
                 /\ UNCHANGED followUps
            ELSE /\ Complete(i, Created(NewResult(frame[i].targetBranch), a.val))
                 /\ followUps' = [followUps EXCEPT ![frame[i].targetBranch] = @ + 1]
    /\ UNCHANGED <<cfg, phase, frame, priorSuccess, checkedOut, cancelled, main>>

-----------------------------------------------------------------------------

(* The program: cmd/cherry-pick run() calls ProcessBranches once, with      *)
(* context.Background(), which is never cancelled.                          *)
Next ==
    \/ \E branches \in BranchLists : ProcessBranches(branches)
    \/ Wait
    \/ \E i \in Goroutines : GetPR(i)
    \/ \E i \in Goroutines : FindExistingPR(i)
    \/ \E i \in Goroutines : GitConfigUserName(i)
    \/ \E i \in Goroutines : GitConfigUserEmail(i)
    \/ \E i \in Goroutines : GitFetch(i)
    \/ \E i \in Goroutines : GitCheckout(i)
    \/ \E i \in Goroutines : GitCherryPick(i)
    \/ \E i \in Goroutines : GitCherryPickAbort(i)
    \/ \E i \in Goroutines : GitPush(i)
    \/ \E i \in Goroutines : CreatePR(i)

Spec == Init /\ [][Next]_vars

(* The next step of goroutine i: the port call its ProcessBranch is at *)
ProcessBranch(i) ==
    \/ GetPR(i)
    \/ FindExistingPR(i)
    \/ GitConfigUserName(i)
    \/ GitConfigUserEmail(i)
    \/ GitFetch(i)
    \/ GitCheckout(i)
    \/ GitCherryPick(i)
    \/ GitCherryPickAbort(i)
    \/ GitPush(i)
    \/ CreatePR(i)

(* Every port call returns and the Go scheduler runs every goroutine that  *)
(* can run: a goroutine that is at a port call gets past it, and main gets *)
(* past wg.Wait() once the counter is zero.                                *)
Fairness ==
    /\ WF_vars(Wait)
    /\ \A i \in Goroutines : WF_vars(ProcessBranch(i))

SpecLive == Spec /\ Fairness

(* The package used one branch at a time, again and again, under a context *)
(* the caller may cancel.                                                  *)
NextRerun ==
    \/ \E b \in TargetBranches : ProcessBranches(<<b>>)
    \/ Wait
    \/ Rerun
    \/ Cancel
    \/ \E i \in Goroutines : GetPR(i)
    \/ \E i \in Goroutines : FindExistingPR(i)
    \/ \E i \in Goroutines : GitConfigUserName(i)
    \/ \E i \in Goroutines : GitConfigUserEmail(i)
    \/ \E i \in Goroutines : GitFetch(i)
    \/ \E i \in Goroutines : GitCheckout(i)
    \/ \E i \in Goroutines : GitCherryPick(i)
    \/ \E i \in Goroutines : GitCherryPickAbort(i)
    \/ \E i \in Goroutines : GitPush(i)
    \/ \E i \in Goroutines : CreatePR(i)

SpecRerun == Init /\ [][NextRerun]_vars

-----------------------------------------------------------------------------
(* cmd/cherry-pick: one run of the program, from the parsed flags to the   *)
(* exit.  The CommentPoster calls the remote through the go-github client; *)
(* main.calls records these calls as log records the pipelines' port calls.*)

(* A slip: && for ||, the repository is refused only when both its owner  *)
(* and its name are empty                                                  *)
ValidateConfigRepoBothEmpty(c) ==
    IF c.PRNumber = 0 THEN Some("PR number is required")
    ELSE IF Len(c.Branches) = 0 THEN Some("at least one target branch is required")
    ELSE IF c.RepoOwner = "" /\ c.RepoName = ""
    THEN Some("repository owner and name are required")
    ELSE Nil

(* A slip: the check of the branch list is left out *)
ValidateConfigWithoutBranches(c) ==
    IF c.PRNumber = 0 THEN Some("PR number is required")
    ELSE IF c.RepoOwner = "" \/ c.RepoName = ""
    THEN Some("repository owner and name are required")
    ELSE Nil

(* ValidateConfig: the error it returns, Nil for none *)
ValidateConfig(c) ==
    IF c.PRNumber = 0 THEN Some("PR number is required")
    ELSE IF Len(c.Branches) = 0 THEN Some("at least one target branch is required")
    ELSE IF c.RepoOwner = "" \/ c.RepoName = ""
    THEN Some("repository owner and name are required")
    ELSE Nil

(* What parseFlags can return: --pr-number defaults to 0, --branches to    *)
(* the empty list, and --repo "owner/name" splits at the first slash into  *)
(* parts either of which may be empty; --comment-id and --issue-number     *)
(* default to 0.                                                           *)
Requests ==
    {[PRNumber |-> n, Branches |-> branches, RepoOwner |-> owner, RepoName |-> name,
      GitUserName |-> "Test Bot", GitUserEmail |-> "bot@test.com"] :
        n \in {0, PRNumber}, branches \in BranchLists,
        owner \in {"", "owner"}, name \in {"", "repo"}}

CommentIDs == {0, 456}
IssueNumbers == {0, PRNumber}

(* The remote before the run: no follow-up yet, or one for every target,   *)
(* left by an earlier run.                                                 *)
Remotes == {[b \in TargetBranches |-> n] : n \in 0..1}

InitMain ==
    /\ cfg \in Requests
    /\ phase = "idle"
    /\ wg = 0
    /\ results = <<>>
    /\ pc = <<>>
    /\ frame = <<>>
    /\ log = <<>>
    /\ priorSuccess = <<>>
    /\ followUps \in Remotes
    /\ checkedOut = InitialHead
    /\ cancelled = FALSE
    /\ \E commentID \in CommentIDs, issueNumber \in IssueNumbers :
         main = Main("AddReaction", commentID, issueNumber)

libraryVars == <<cfg, phase, wg, results, pc, frame, log, priorSuccess,
                 followUps, checkedOut, cancelled>>

(* A call of the CommentPoster to the remote, with the error it answered *)
PosterCall(op, body, err) == [op |-> op, body |-> body, err |-> err]

(* poster.AddReaction(ctx, commentID, "+1"): nothing to do without a       *)
(* comment id; an error is logged as a warning and the run goes on.        *)
AddReaction ==
    /\ main.pc = "AddReaction"
    /\ \E err \in {Nil, RemoteErr} :
         main' = [main EXCEPT
                    !.pc = "ValidateConfig",
                    !.calls = IF main.commentID = 0 THEN @
                              ELSE Append(@, PosterCall("CreateIssueCommentReaction",
                                                        "+1", err))]
    /\ UNCHANGED libraryVars

(* if err := cherrypick.ValidateConfig(&cfg.Config); err != nil *)
Validate ==
    /\ main.pc = "ValidateConfig"
    /\ LET err == ValidateConfig(cfg)
       IN  main' = [main EXCEPT
                      !.pc = IF err # Nil THEN "PostError" ELSE "ProcessBranches",
                      !.err = err]
    /\ UNCHANGED libraryVars

(* poster.PostError(ctx, err.Error()), then return err: the comment is     *)
(* posted if there is an issue to post it to, and a failure to post is     *)
(* logged.                                                                 *)
PostError ==
    /\ main.pc = "PostError"
    /\ \E err \in {Nil, RemoteErr} :
         main' = [main EXCEPT
                    !.pc = "exited",
                    !.calls = IF main.issueNumber = 0 THEN @
                              ELSE Append(@, PosterCall("CreateComment",
                                                        "Cherry-pick failed: "
                                                            \o Deref(main.err), err))]
    /\ UNCHANGED libraryVars

(* results := service.ProcessBranches(ctx, &cfg.Config) *)
CallProcessBranches ==
    /\ main.pc = "ProcessBranches"
    /\ ProcessBranches(cfg.Branches)

HTMLURL(pr) == "https://github.com/owner/repo/pull/" \o ToString(pr.Number)

(* CommentPoster.formatResult, without the emoji and with ' for the       *)
(* backquote                                                               *)
formatResult(result) ==
    IF result.ExistingPR # Nil
    THEN "**Cherry-pick to '" \o result.Branch \o "' already exists!**\n\n"
         \o "A pull request for this cherry-pick already exists: #"
         \o ToString(Deref(result.ExistingPR).Number) \o "\n\n"
         \o "**PR**: " \o HTMLURL(Deref(result.ExistingPR)) \o "\n"
    ELSE IF result.Success /\ result.NewPR # Nil
    THEN "**Cherry-pick to '" \o result.Branch \o "' successful!**\n\n"
         \o "A new pull request has been created to cherry-pick this change to '"
         \o result.Branch \o "'.\n\n"
         \o "**PR**: " \o HTMLURL(Deref(result.NewPR)) \o "\n\n"
         \o "Please review and merge the cherry-pick PR.\n"
    ELSE "**Cherry-pick to '" \o result.Branch \o "' failed!**\n\n"
         \o "The automatic cherry-pick to '" \o result.Branch \o "' failed.\n\n"
         \o "**Error:**\n'''\n" \o result.ErrorMessage \o "\n'''\n\n"
         \o "**Next steps:**\n"
         \o "- If the PR is not merged, merge it first and try again\n"
         \o "- If there are conflicts, you'll need to manually cherry-pick this PR\n"

(* poster.PostResults(ctx, results) is entered once ProcessBranches has    *)
(* returned: it returns at once without an issue to post to.               *)
PostResults ==
    /\ main.pc = "ProcessBranches"
    /\ phase = "returned"
    /\ main' = [main EXCEPT
                  !.pc = IF main.issueNumber = 0 \/ Len(results) = 0
                         THEN "range results" ELSE "postComment"]
    /\ UNCHANGED libraryVars

(* A slip: the loop of PostResults returns at the first comment that fails *)
(* to post                                                                 *)
PostCommentUntilError ==
    /\ main.pc = "postComment"
    /\ \E err \in {Nil, RemoteErr} :
         main' = [main EXCEPT
                    !.pc = IF err # Nil \/ main.posted + 1 = Len(results)
                           THEN "range results" ELSE "postComment",
                    !.posted = @ + 1,
                    !.calls = Append(@, PosterCall("CreateComment",
                                         formatResult(Deref(results[main.posted + 1])),
                                         err))]
    /\ UNCHANGED libraryVars

(* One turn of the loop of PostResults: the comment for the next result is *)
(* posted; a failure to post is logged and the loop goes on.               *)
PostComment ==
    /\ main.pc = "postComment"
    /\ \E err \in {Nil, RemoteErr} :
         main' = [main EXCEPT
                    !.pc = IF main.posted + 1 = Len(results)
                           THEN "range results" ELSE "postComment",
                    !.posted = @ + 1,
                    !.calls = Append(@, PosterCall("CreateComment",
                                         formatResult(Deref(results[main.posted + 1])),
                                         err))]
    /\ UNCHANGED libraryVars

(* A slip: a run is failed only when every cherry-pick failed *)
ExitErrorWhenAllFailed(res) ==
    IF res # <<>> /\ \A k \in DOMAIN res :
                        ~Deref(res[k]).Success /\ Deref(res[k]).ExistingPR = Nil
    THEN Some("cherry-pick to " \o Deref(res[1]).Branch \o " failed")
    ELSE Nil

(* for _, result := range results: the error of the first result that is   *)
(* neither a success nor an existing follow-up, Nil if there is none.      *)
ExitError(res) ==
    LET failed == {k \in DOMAIN res :
                      ~Deref(res[k]).Success /\ Deref(res[k]).ExistingPR = Nil}
        first == CHOOSE k \in failed : \A l \in failed : k <= l
    IN  IF failed = {} THEN Nil
        ELSE Some("cherry-pick to " \o Deref(res[first]).Branch \o " failed")

(* run() returns, and main exits: with status 1 through log.Fatal if the   *)
(* error is not nil, with status 0 otherwise.                              *)
Exit ==
    /\ main.pc = "range results"
    /\ main' = [main EXCEPT !.pc = "exited", !.err = ExitError(results)]
    /\ UNCHANGED libraryVars

ExitStatus == IF main.err # Nil THEN 1 ELSE 0

NextMain ==
    \/ AddReaction
    \/ Validate
    \/ PostError
    \/ CallProcessBranches
    \/ Wait
    \/ \E i \in Goroutines : GetPR(i)
    \/ \E i \in Goroutines : FindExistingPR(i)
    \/ \E i \in Goroutines : GitConfigUserName(i)
    \/ \E i \in Goroutines : GitConfigUserEmail(i)
    \/ \E i \in Goroutines : GitFetch(i)
    \/ \E i \in Goroutines : GitCheckout(i)
    \/ \E i \in Goroutines : GitCherryPick(i)
    \/ \E i \in Goroutines : GitCherryPickAbort(i)
    \/ \E i \in Goroutines : GitPush(i)
    \/ \E i \in Goroutines : CreatePR(i)
    \/ PostResults
    \/ PostComment
    \/ Exit

SpecMain == InitMain /\ [][NextMain]_vars


-----------------------------------------------------------------------------
(* What a run shows from outside: the port calls, as the test doubles      *)
(* record them.                                                            *)

IsGit(call) == call.port = "git"
IsGitHub(call) == call.port = "github"

(* mockGitRunner.commands, per goroutine *)
GitCommands(i) ==
    LET git == SelectSeq(log[i], IsGit) IN [k \in 1..Len(git) |-> git[k].args]

(* The calls of goroutine i to the remote operation `name` *)
RemoteCalls(i, name) == {k \in 1..Len(log[i]) : IsGitHub(log[i][k]) /\ log[i][k].args[1] = name}

Done(i) == i \in DOMAIN pc /\ pc[i] = "done"

Outcome(i) == Deref(results[frame[i].index])


-----------------------------------------------------------------------------
(* C1: ProcessBranches returns exactly one Outcome per element of          *)
(* cfg.Branches, and the Outcome at position i is the one for branch       *)
(* cfg.Branches[i], whatever order the goroutines finish in and whichever  *)
(* of them fail.                                                           *)
C1_OutcomesAligned ==
    phase = "returned" =>
        /\ Len(results) = Len(cfg.Branches)
        /\ \A i \in 1..Len(cfg.Branches) :
             /\ results[i] # Nil
             /\ Deref(results[i]).Branch = cfg.Branches[i]

(* Two different branches, the first failed and the second succeeded *)
C1_Witness ==
    /\ phase = "returned"
    /\ Len(cfg.Branches) = 2
    /\ cfg.Branches[1] # cfg.Branches[2]
    /\ ~Deref(results[1]).Success
    /\ Deref(results[2]).Success


-----------------------------------------------------------------------------
(* C2: over any execution, a follow-up request is successfully created at  *)
(* most once per (source id, target branch) pair.                          *)
C2_CreatedAtMostOnce ==
    \A b \in TargetBranches : followUps[b] <= 1

-----------------------------------------------------------------------------
LookupAnswered(i) ==
    /\ Len(log[i]) >= 2
    /\ log[i][1].err = Nil
    /\ Deref(log[i][1].val).Merged = Some(TRUE)
    /\ log[i][2].err = Nil

-----------------------------------------------------------------------------
Distinct(seq) == \A i, j \in DOMAIN seq : i # j => seq[i] # seq[j]

(* C4: when ProcessBranches runs pipelines for distinct target branches,   *)
(* whenever a goroutine's cherry-pick or push runs, the branch checked out *)
(* in the working tree is that goroutine's own cherry-pick-<id>-to-<target>*)
C4_NoWorkingTreeCollision ==
    [][\A i \in Goroutines :
          (Distinct(cfg.Branches) /\ (GitCherryPick(i) \/ GitPush(i)))
              => checkedOut = frame[i].cherryPickBranch]_vars

-----------------------------------------------------------------------------
(* ProcessBranch run alone: the Result it returns once the ports have      *)
(* given `answers`, in the order it calls them; Nil while it still waits   *)
(* for an answer.                                                          *)
ProcessBranchAlone(c, targetBranch, answers) ==
    LET result == NewResult(targetBranch)
        n == Len(answers)
        steps == <<ConfigUserName, ConfigUserEmail, Fetch, Checkout, CherryPick>>
        failed == {k \in 1..5 : 2 + k <= n /\ answers[2 + k].err # Nil}
        first == CHOOSE k \in failed : \A l \in failed : k <= l
    IN  IF n < 1 THEN Nil
        ELSE IF answers[1].err # Nil
        THEN Some(GetPRFailed(result, c.PRNumber, answers[1].err))
        ELSE IF Deref(answers[1].val).Merged # Some(TRUE)
        THEN Some(NotMerged(result, c.PRNumber, Deref(answers[1].val)))
        ELSE IF n < 2 THEN Nil
        ELSE IF answers[2].val # Nil THEN Some(AlreadyExists(result, answers[2].val))
        ELSE IF failed # {}
        THEN IF steps[first] = CherryPick /\ n < 8 THEN Nil   \* the abort is still to run
             ELSE Some(GitFailed(result, GitError(steps[first], targetBranch,
                                                  answers[2 + first].err)))
        ELSE IF n < 8 THEN Nil
        ELSE IF answers[8].err # Nil
        THEN Some(GitFailed(result, GitError(Push, targetBranch, answers[8].err)))
        ELSE IF n < 9 THEN Nil
        ELSE IF answers[9].err # Nil THEN Some(CreateFailed(result, answers[9].err))
        ELSE Some(Created(result, answers[9].val))

(* C5: failure isolation.  At every moment of a ProcessBranches run, the   *)
(* slot of each branch holds exactly the Outcome that branch's pipeline    *)
(* would return if it ran alone and the ports answered it as they did:     *)
(* nothing while it runs, and no other branch's failure changes it.        *)
C5_FailureIsolation ==
    \A i \in DOMAIN pc :
        results[i] = ProcessBranchAlone(cfg, cfg.Branches[i], log[i])

(* Two branches returned: the first failed at the cherry-pick and aborted, *)
(* the second created its follow-up.                                       *)
C5_Witness ==
    /\ phase = "returned"
    /\ Len(cfg.Branches) = 2
    /\ Len(GitCommands(1)) = 6
    /\ GitCommands(1)[6] = <<"cherry-pick", "--abort">>
    /\ Deref(results[1]).Error # Nil
    /\ Deref(results[2]).NewPR # Nil

-----------------------------------------------------------------------------
(* C6: once a remote call of a pipeline has observed the cancellation, the *)
(* pipeline makes no further port call, and its Outcome is a failure that  *)
(* carries the cancellation error; for every remote call, the lookup       *)
(* included.                                                               *)
C6_CancellationStopsPipeline ==
    \A i \in DOMAIN pc : \A k \in 1..Len(log[i]) :
        (IsGitHub(log[i][k]) /\ log[i][k].err = CtxErr) =>
            /\ k = Len(log[i])
            /\ Done(i) => (~Outcome(i).Success /\ Outcome(i).Error = CtxErr)


-----------------------------------------------------------------------------
(* C7: if GetPR succeeds and reports the change as not merged (flag false  *)
(* or absent), ProcessBranch returns at once with Success false and a      *)
(* non-empty ErrorMessage: GetPR is its only port call, so there is no git *)
(* command, no FindExistingPR and no CreatePR.                             *)
NotMergedAnswer(i) ==
    /\ Len(log[i]) >= 1
    /\ log[i][1].err = Nil
    /\ Deref(log[i][1].val).Merged \in {Nil, Some(FALSE)}

C7_NotMergedStops ==
    \A i \in DOMAIN pc :
        NotMergedAnswer(i) =>
            /\ Done(i)
            /\ ~Outcome(i).Success
            /\ Outcome(i).ErrorMessage # ""
            /\ Len(log[i]) = 1
            /\ GitCommands(i) = <<>>
            /\ RemoteCalls(i, "FindExistingPR") = {}
            /\ RemoteCalls(i, "CreatePR") = {}

(* One pipeline was told "merged: false", another got no merged flag *)
C7_Witness ==
    /\ phase = "returned"
    /\ \E i, j \in DOMAIN pc :
         /\ NotMergedAnswer(i) /\ Deref(log[i][1].val).Merged = Some(FALSE)
         /\ NotMergedAnswer(j) /\ Deref(log[j][1].val).Merged = Nil

-----------------------------------------------------------------------------
(* C8: if the change is merged and FindExistingPR returns a match,         *)
(* ProcessBranch returns with Success true and ExistingPR the match        *)
(* returned, having run no git command and made no CreatePR call.          *)
MatchReturned(i) ==
    /\ Len(log[i]) >= 2
    /\ log[i][2].args[1] = "FindExistingPR"
    /\ log[i][2].val # Nil

C8_ExistingShortCircuits ==
    \A i \in DOMAIN pc :
        MatchReturned(i) =>
            /\ Done(i)
            /\ Outcome(i).Success
            /\ Outcome(i).ExistingPR = log[i][2].val
            /\ Outcome(i).NewPR = Nil
            /\ GitCommands(i) = <<>>
            /\ RemoteCalls(i, "CreatePR") = {}

(* A pipeline ended on the match its lookup returned *)
C8_Witness ==
    \E i \in DOMAIN pc :
        /\ MatchReturned(i)
        /\ Done(i)
        /\ Deref(log[i][2].val).Head = CherryPickBranch(PRNumber, cfg.Branches[i])

-----------------------------------------------------------------------------
(* C9: on a fully successful ProcessBranch (merged, no existing follow-up, *)
(* every step succeeds) exactly six git commands are issued, in the order  *)
(* config user.name, config user.email, fetch, checkout -b,                *)
(* cherry-pick -m 1, push; and the Outcome has Success true and NewPR the  *)
(* follow-up CreatePR returned.                                            *)
FullySuccessful(i) ==
    /\ Done(i)
    /\ \A k \in 1..Len(log[i]) : log[i][k].err = Nil
    /\ Deref(log[i][1].val).Merged = Some(TRUE)
    /\ Len(log[i]) >= 2
    /\ log[i][2].val = Nil

SixCommands(targetBranch) ==
    << <<"config", "user.name", "Test Bot">>,
       <<"config", "user.email", "bot@test.com">>,
       <<"fetch", "origin", targetBranch>>,
       <<"checkout", "-b", "cherry-pick-123-to-" \o targetBranch, "origin/" \o targetBranch>>,
       <<"cherry-pick", "-m", "1", "abc123">>,
       <<"push", "origin", "cherry-pick-123-to-" \o targetBranch>> >>

C9_SuccessRunsSixCommands ==
    \A i \in DOMAIN pc :
        FullySuccessful(i) =>
            /\ GitCommands(i) = SixCommands(cfg.Branches[i])
            /\ Outcome(i).Success
            /\ Outcome(i).NewPR # Nil
            /\ Outcome(i).NewPR = log[i][Len(log[i])].val
            /\ log[i][Len(log[i])].args[1] = "CreatePR"
            /\ Outcome(i).ExistingPR = Nil
            /\ Outcome(i).Error = Nil

(* Two pipelines both went all the way *)
C9_Witness ==
    /\ phase = "returned"
    /\ Len(cfg.Branches) = 2
    /\ FullySuccessful(1)
    /\ FullySuccessful(2)

-----------------------------------------------------------------------------
(* C10: if the fetch of a pipeline fails, the fetch is the pipeline's last *)
(* port call (no checkout, cherry-pick, abort or push, and no CreatePR),   *)
(* and the Outcome has Success false and a non-nil Error.                  *)
FetchFailedAt(i, k) ==
    /\ IsGit(log[i][k])
    /\ log[i][k].args[1] = "fetch"
    /\ log[i][k].err # Nil

C10_FetchFailureStops ==
    \A i \in DOMAIN pc : \A k \in 1..Len(log[i]) :
        FetchFailedAt(i, k) =>
            /\ k = Len(log[i])
            /\ Len(GitCommands(i)) = 3
            /\ RemoteCalls(i, "CreatePR") = {}
            /\ Done(i)
            /\ ~Outcome(i).Success
            /\ Outcome(i).Error # Nil
            /\ Outcome(i).NewPR = Nil

(* A pipeline's fetch failed while the other pipeline pushed *)
C10_Witness ==
    /\ phase = "returned"
    /\ \E i, j \in DOMAIN pc :
         /\ FetchFailedAt(i, Len(log[i]))
         /\ Len(GitCommands(j)) = 6
         /\ GitCommands(j)[6][1] = "push"

-----------------------------------------------------------------------------
(* The k-th port call of goroutine i is `git cherry-pick -m 1 <sha>`, and  *)
(* it failed                                                               *)
CherryPickFailedAt(i, k) ==
    /\ IsGit(log[i][k])
    /\ log[i][k].args[1] = "cherry-pick"
    /\ log[i][k].args[2] = "-m"
    /\ log[i][k].err # Nil

(* C11: if the cherry-pick -m 1 of a pipeline fails, the pipeline's next   *)
(* port call is git cherry-pick --abort and that is its last one (no push, *)
(* no CreatePR); whatever the abort answers, the Outcome has Success false *)
(* and as Error the error of the cherry-pick.                              *)
C11_CherryPickFailureAborts ==
    \A i \in DOMAIN pc : \A k \in 1..Len(log[i]) :
        CherryPickFailedAt(i, k) =>
            /\ k = Len(log[i]) => pc[i] = CherryPickAbort
            /\ k < Len(log[i]) =>
                  /\ Len(log[i]) = k + 1
                  /\ IsGit(log[i][k + 1])
                  /\ log[i][k + 1].args = <<"cherry-pick", "--abort">>
                  /\ Done(i)
            /\ \A j \in 1..Len(GitCommands(i)) : GitCommands(i)[j][1] # "push"
            /\ RemoteCalls(i, "CreatePR") = {}
            /\ Done(i) =>
                  /\ ~Outcome(i).Success
                  /\ Outcome(i).Error # Nil
                  /\ Outcome(i).Error =
                        GitError(CherryPick, frame[i].targetBranch, log[i][k].err)
                  /\ Outcome(i).NewPR = Nil
                  /\ Outcome(i).ExistingPR = Nil

(* A cherry-pick failed, and so did its abort; the pipeline has returned *)
C11_Witness ==
    \E i \in DOMAIN pc :
        /\ Done(i)
        /\ Len(log[i]) = 8
        /\ CherryPickFailedAt(i, 7)
        /\ log[i][8].args = <<"cherry-pick", "--abort">>
        /\ log[i][8].err # Nil
        /\ Outcome(i).Error # Nil

-----------------------------------------------------------------------------
(* The fields of a Result that are populated, among ExistingPR, NewPR and  *)
(* Error                                                                   *)
Populated(result) ==
    {f \in {"ExistingPR", "NewPR", "Error"} : result[f] # Nil}

(* C12 as stated: every Outcome ProcessBranch returns, on every path, has  *)
(* exactly one of ExistingPR, NewPR and Error populated.                   *)
C12_ExactlyOnePopulated ==
    \A i \in DOMAIN pc :
        Done(i) => Cardinality(Populated(Outcome(i))) = 1

(* C12, amended: every Outcome ProcessBranch returns has at most one of    *)
(* ExistingPR, NewPR and Error populated, and exactly one on every path    *)
(* but one: when GetPR reports the change as not merged, none of the three *)
(* is populated and the failure is told by ErrorMessage alone.             *)
C12_AtMostOnePopulated ==
    \A i \in DOMAIN pc :
        Done(i) =>
            /\ Cardinality(Populated(Outcome(i))) <= 1
            /\ Populated(Outcome(i)) = {} <=> NotMergedAnswer(i)
            /\ Populated(Outcome(i)) = {} =>
                  (~Outcome(i).Success /\ Outcome(i).ErrorMessage # "")

(* Two Outcomes returned: the one of a change not merged, with none of the *)
(* three populated, and the one of a failed GetPR, with its Error          *)
C12_Witness ==
    /\ phase = "returned"
    /\ \E i, j \in DOMAIN pc :
         /\ NotMergedAnswer(i) /\ Populated(Outcome(i)) = {}
         /\ log[j][1].err # Nil /\ Populated(Outcome(j)) = {"Error"}

-----------------------------------------------------------------------------
(* C13: for every Outcome ProcessBranch returns, Success is true if and    *)
(* only if ExistingPR or NewPR is populated.                               *)
C13_SuccessIffReference ==
    \A i \in DOMAIN pc :
        Done(i) =>
            (Outcome(i).Success <=>
                (Outcome(i).ExistingPR # Nil \/ Outcome(i).NewPR # Nil))

(* Of two pipelines for the same branch, one created the follow-up and the *)
(* other found it; both report success.                                    *)
C13_Witness ==
    /\ phase = "returned"
    /\ \E i, j \in DOMAIN pc :
         /\ Outcome(i).Success /\ Outcome(i).NewPR # Nil
         /\ Outcome(j).Success /\ Outcome(j).ExistingPR # Nil

-----------------------------------------------------------------------------
(* C14: ValidateConfig returns an error if and only if PRNumber is zero, or *)
(* Branches is empty, or RepoOwner is empty, or RepoName is empty; the     *)
(* call makes no remote call and runs no git command, and leaves the       *)
(* Config as it was.                                                       *)
C14_ValidateConfig ==
    [][Validate =>
          /\ main'.err # Nil <=>
                \/ cfg.PRNumber = 0
                \/ cfg.Branches = <<>>
                \/ cfg.RepoOwner = ""
                \/ cfg.RepoName = ""
          /\ cfg' = cfg
          /\ main'.calls = main.calls
          /\ log' = log
          /\ checkedOut' = checkedOut
          /\ followUps' = followUps]_vars

(* A Config was refused for its empty repository name alone *)
C14_Witness ==
    /\ main.pc = "PostError"
    /\ main.err # Nil
    /\ cfg.PRNumber # 0
    /\ cfg.Branches # <<>>
    /\ cfg.RepoOwner # ""
    /\ cfg.RepoName = ""

-----------------------------------------------------------------------------
(* A Request that fails a rule of the validator *)
FailsValidation(c) ==
    \/ c.PRNumber = 0
    \/ c.Branches = <<>>
    \/ c.RepoOwner = ""
    \/ c.RepoName = ""

(* The remote operations run() has called through its CommentPoster *)
PosterOps == [k \in 1..Len(main.calls) |-> main.calls[k].op]

-----------------------------------------------------------------------------
(* An Outcome that is neither a success nor an existing follow-up *)
GenuineFailure(result) == ~result.Success /\ result.ExistingPR = Nil

-----------------------------------------------------------------------------
(* C17: ProcessBranches returns only after every goroutine it launched has *)
(* completed: when it returns, the counter is zero, every goroutine is     *)
(* done and every slot of results holds a Result; and, provided every port *)
(* call returns, a ProcessBranches that is waiting does return.            *)
C17_ReturnsAfterAllComplete ==
    /\ [](phase = "returned" =>
            /\ wg = 0
            /\ \A i \in DOMAIN pc : pc[i] = "done"
            /\ Len(results) = Len(cfg.Branches)
            /\ \A k \in DOMAIN results : results[k] # Nil)
    /\ (phase = "waiting") ~> (phase = "returned")

(* ProcessBranches has returned from two goroutines, one that stopped at   *)
(* its first call and one that went through all nine                       *)
C17_Witness ==
    /\ phase = "returned"
    /\ Len(cfg.Branches) = 2
    /\ \E i, j \in DOMAIN pc : Len(log[i]) = 1 /\ Len(log[j]) = 9

-----------------------------------------------------------------------------
(* The change is merged and the lookup of goroutine i returned an error *)
LookupFailed(i) ==
    /\ Len(log[i]) >= 2
    /\ log[i][2].args[1] = "FindExistingPR"
    /\ log[i][2].err # Nil

(* The answer of a lookup that finds no follow-up *)
NoneFound == [val |-> Nil, err |-> Nil]

(* The answers goroutine i got, the lookup's replaced by "none found" *)
AsIfNoneFound(i) ==
    [k \in 1..Len(log[i]) |->
        IF k = 2 THEN [log[i][k] EXCEPT !.val = NoneFound.val, !.err = NoneFound.err]
        ELSE log[i][k]]

(* C18: an error of the FindExistingPR lookup is not fatal.  When the      *)
(* change is merged and the lookup returns an error, the pipeline goes on  *)
(* as if no follow-up had been found: its next call is the first git        *)
(* command, CreatePR follows the six git commands if they all succeed, the *)
(* Outcome is the one the pipeline returns when the lookup finds nothing   *)
(* and the other calls answer the same, and the error of the lookup is not *)
(* the Outcome's Error.                                                    *)
C18_LookupErrorNotFatal ==
    \A i \in DOMAIN pc :
        LookupFailed(i) =>
            /\ Len(log[i]) = 2 => pc[i] = ConfigUserName
            /\ Len(log[i]) >= 3 =>
                  log[i][3].args = <<"config", "user.name", cfg.GitUserName>>
            /\ (Len(GitCommands(i)) = 6
                    /\ \A k \in 3..8 : k <= Len(log[i]) => log[i][k].err = Nil)
                  => \/ pc[i] = "CreatePR"
                     \/ Len(log[i]) = 9 /\ log[i][9].args[1] = "CreatePR"
            /\ results[i] = ProcessBranchAlone(cfg, cfg.Branches[i], AsIfNoneFound(i))
            /\ Done(i) =>
                  /\ Len(log[i]) > 2
                  /\ Outcome(i).Error # log[i][2].err
                  /\ Outcome(i).ExistingPR = Nil

(* A lookup failed, and the pipeline went on to create the follow-up *)
C18_Witness ==
    \E i \in DOMAIN pc :
        /\ LookupFailed(i)
        /\ Done(i)
        /\ Len(log[i]) = 9
        /\ Outcome(i).Success
        /\ Outcome(i).NewPR = log[i][9].val
        /\ Outcome(i).NewPR # Nil

-----------------------------------------------------------------------------
(* The k-th port call of goroutine i failed, and it is neither the lookup  *)
(* nor the abort, whose errors ProcessBranch passes over                   *)
FatalAt(i, k) ==
    /\ log[i][k].err # Nil
    /\ log[i][k].args[1] # "FindExistingPR"
    /\ log[i][k].args # <<"cherry-pick", "--abort">>

(* C19: no retries.  Within one ProcessBranch no port call is made twice   *)
(* (GetPR, FindExistingPR, each git command, CreatePR: at most once each), *)
(* and the first fatal failure is the last attempt: nothing follows it but *)
(* the abort after a failed cherry-pick, and the Outcome is a failure.     *)
C19_NoRetries ==
    \A i \in DOMAIN pc :
        /\ \A k, l \in 1..Len(log[i]) : k # l => log[i][k].args # log[i][l].args
        /\ Len(GitCommands(i)) <= 6
        /\ \A k \in 1..Len(log[i]) :
              FatalAt(i, k) =>
                  /\ \A l \in 1..(k - 1) : ~FatalAt(i, l)
                  /\ IF CherryPickFailedAt(i, k)
                     THEN /\ Len(log[i]) <= k + 1
                          /\ Len(log[i]) = k => pc[i] = CherryPickAbort
                          /\ Len(log[i]) = k + 1 => Done(i)
                     ELSE Len(log[i]) = k /\ Done(i)
                  /\ Done(i) =>
                        /\ ~Outcome(i).Success
                        /\ Outcome(i).Error # Nil
                        /\ Outcome(i).NewPR = Nil
                        /\ Outcome(i).ExistingPR = Nil

(* A pipeline ended on its failed push while the other ended on its failed *)
(* CreatePR                                                                *)
C19_Witness ==
    /\ phase = "returned"
    /\ \E i, j \in DOMAIN pc :
         /\ Len(log[i]) = 8 /\ FatalAt(i, 8) /\ log[i][8].args[1] = "push"
         /\ Len(log[j]) = 9 /\ FatalAt(j, 9) /\ log[j][9].args[1] = "CreatePR"

-----------------------------------------------------------------------------
(* The k-th port call of goroutine i is CreatePR *)
CreatePRAt(i, k) == IsGitHub(log[i][k]) /\ log[i][k].args[1] = "CreatePR"

(* The six git commands of goroutine i have run and succeeded *)
SixSucceeded(i) ==
    /\ GitCommands(i) = SixCommands(cfg.Branches[i])
    /\ \A k \in 1..Len(log[i]) : IsGit(log[i][k]) => log[i][k].err = Nil

(* C20: CreatePR is called only after the six git commands of the same     *)
(* ProcessBranch, through the push, have succeeded.  If it returns an      *)
(* error, the Outcome has Success false, that error as Error, and NewPR    *)
(* unset; if it succeeds, the Outcome has Success true and NewPR the pull  *)
(* request it returned.                                                    *)
C20_CreatePRAfterPush ==
    \A i \in DOMAIN pc :
        /\ pc[i] = "CreatePR" => SixSucceeded(i)
        /\ \A k \in 1..Len(log[i]) :
              CreatePRAt(i, k) =>
                  /\ SixSucceeded(i)
                  /\ \A l \in 1..Len(log[i]) : IsGit(log[i][l]) => l < k
                  /\ k = Len(log[i])
                  /\ Done(i)
                  /\ IF log[i][k].err # Nil
                     THEN /\ ~Outcome(i).Success
                          /\ Outcome(i).Error = log[i][k].err
                          /\ Outcome(i).NewPR = Nil
                     ELSE /\ Outcome(i).Success
                          /\ Outcome(i).NewPR # Nil
                          /\ Outcome(i).NewPR = log[i][k].val
                          /\ Outcome(i).Error = Nil

(* Two pipelines pushed: the CreatePR of one failed, the other's succeeded *)
C20_Witness ==
    /\ phase = "returned"
    /\ \E i, j \in DOMAIN pc :
         /\ CreatePRAt(i, Len(log[i])) /\ log[i][Len(log[i])].err # Nil
         /\ CreatePRAt(j, Len(log[j])) /\ log[j][Len(log[j])].err = Nil
         /\ Outcome(j).NewPR # Nil

-----------------------------------------------------------------------------
(* strings.HasPrefix and strings.Contains *)
HasPrefix(str, prefix) ==
    Len(str) >= Len(prefix) /\ SubSeq(str, 1, Len(prefix)) = prefix

Contains(str, substr) ==
    \E k \in 1..(Len(str) + 1 - Len(substr)) :
        SubSeq(str, k, k + Len(substr) - 1) = substr

(* The shape of a comment about `branch`, told by its heading *)
Shape(body, branch) ==
    IF HasPrefix(body, "**Cherry-pick to '" \o branch \o "' already exists!**")
    THEN "dedup"
    ELSE IF HasPrefix(body, "**Cherry-pick to '" \o branch \o "' successful!**")
    THEN "success"
    ELSE IF HasPrefix(body, "**Cherry-pick to '" \o branch \o "' failed!**")
    THEN "failure"
    ELSE "none"

(* The comments run() has posted *)
Comments == SelectSeq(main.calls, LAMBDA call : call.op = "CreateComment")

(* C21: PostResults posts exactly one comment per Outcome, in the order of *)
(* cfg.Branches: of the dedup shape, with the number and the URL of the    *)
(* follow-up, iff ExistingPR is set; of the success shape, with the URL,   *)
(* iff ExistingPR is unset and Success holds with NewPR set; of the        *)
(* failure shape, with the ErrorMessage and the next steps, otherwise.  A  *)
(* comment that fails to post does not stop the ones after it, and nothing *)
(* is posted when the issue number is 0.                                   *)
C21_OneCommentPerOutcome ==
    (phase = "returned" /\ main.pc \in {"postComment", "range results", "exited"}) =>
        /\ main.issueNumber = 0 => Comments = <<>>
        /\ main.issueNumber # 0 =>
              /\ Len(Comments) = main.posted
              /\ main.pc \in {"range results", "exited"} => Len(Comments) = Len(results)
              /\ main.pc = "postComment" => Len(Comments) < Len(results)
              /\ \A k \in 1..Len(Comments) :
                    LET result == Deref(results[k])
                        body == Comments[k].body
                    IN  /\ result.Branch = cfg.Branches[k]
                        /\ Shape(body, cfg.Branches[k]) =
                              (IF result.ExistingPR # Nil THEN "dedup"
                               ELSE IF result.Success /\ result.NewPR # Nil THEN "success"
                               ELSE "failure")
                        /\ result.ExistingPR # Nil =>
                              /\ Contains(body, "#" \o ToString(Deref(result.ExistingPR).Number))
                              /\ Contains(body, HTMLURL(Deref(result.ExistingPR)))
                        /\ (result.ExistingPR = Nil /\ result.NewPR # Nil) =>
                              Contains(body, HTMLURL(Deref(result.NewPR)))
                        /\ (result.ExistingPR = Nil /\ result.NewPR = Nil) =>
                              /\ Contains(body, result.ErrorMessage)
                              /\ Contains(body, "Next steps")

(* For two branches, the comment about the first, a failure, failed to     *)
(* post, and the comment about the second, an existing follow-up, was      *)
(* posted after it.                                                        *)
C21_Witness ==
    /\ main.pc = "exited"
    /\ phase = "returned"
    /\ Len(results) = 2
    /\ Len(Comments) = 2
    /\ Comments[1].err # Nil
    /\ Shape(Comments[1].body, cfg.Branches[1]) = "failure"
    /\ Shape(Comments[2].body, cfg.Branches[2]) = "dedup"

-----------------------------------------------------------------------------
(* The k-th port call of goroutine i is git cherry-pick --abort *)
AbortAt(i, k) == IsGit(log[i][k]) /\ log[i][k].args = <<"cherry-pick", "--abort">>

AbortIssued(i) == \E k \in 1..Len(log[i]) : AbortAt(i, k)

(* The command of performGitOperations that the k-th port call of          *)
(* goroutine i, a git command, is                                          *)
StepAt(i, k) ==
    CHOOSE step \in {ConfigUserName, ConfigUserEmail, Fetch, Checkout,
                     CherryPick, CherryPickAbort, Push} :
        GitArgs(step, cfg, frame[i].targetBranch, frame[i].cherryPickBranch,
                frame[i].mergeCommit) = log[i][k].args

(* C22: git cherry-pick --abort is issued in exactly the ProcessBranch     *)
(* invocations whose cherry-pick -m 1 failed, right after it.  A failure   *)
(* of config user.name, config user.email, fetch, checkout -b or push is   *)
(* the pipeline's last call, with no abort, and leaves Success false and   *)
(* the wrapped error as Error; a successful pipeline has issued no abort.  *)
C22_AbortOnlyAfterCherryPick ==
    \A i \in DOMAIN pc :
        /\ \A k \in 1..Len(log[i]) :
              AbortAt(i, k) => (k > 1 /\ CherryPickFailedAt(i, k - 1))
        /\ \A k \in 1..Len(log[i]) :
              CherryPickFailedAt(i, k) =>
                  \/ Len(log[i]) = k /\ pc[i] = CherryPickAbort
                  \/ Len(log[i]) = k + 1 /\ AbortAt(i, k + 1)
        /\ \A k \in 1..Len(log[i]) :
              (IsGit(log[i][k]) /\ log[i][k].err # Nil
                  /\ StepAt(i, k) \in {ConfigUserName, ConfigUserEmail, Fetch,
                                        Checkout, Push}) =>
                  /\ k = Len(log[i])
                  /\ ~AbortIssued(i)
                  /\ Done(i)
                  /\ ~Outcome(i).Success
                  /\ Outcome(i).Error =
                        GitError(StepAt(i, k), frame[i].targetBranch, log[i][k].err)
                  /\ Outcome(i).ErrorMessage = Deref(Outcome(i).Error)
        /\ (Done(i) /\ Outcome(i).Success) => ~AbortIssued(i)

(* Two pipelines have returned: one whose push failed, without an abort,   *)
(* and one whose cherry-pick failed and was aborted                        *)
C22_Witness ==
    /\ phase = "returned"
    /\ \E i, j \in DOMAIN pc :
         /\ Len(log[i]) = 8 /\ log[i][8].args[1] = "push" /\ log[i][8].err # Nil
         /\ ~AbortIssued(i)
         /\ Len(log[j]) = 8 /\ CherryPickFailedAt(j, 7) /\ AbortAt(j, 8)

-----------------------------------------------------------------------------
(* C23: in ProcessBranches every goroutine has an index of its own, and a  *)
(* step of a goroutine changes no slot of results but the one at its       *)
(* index, which it writes once: when its ProcessBranch returns, from empty *)
(* to its Result.  What it writes is decided by the answers to its own     *)
(* port calls, whatever the other slots hold, and no step of a goroutine   *)
(* changes the Config or its Branches.                                     *)
C23_OwnSlotWrittenOnce ==
    /\ [](\A i \in DOMAIN pc :
            /\ frame[i].index = i
            /\ results[i] # Nil <=> pc[i] = "done"
            /\ results[i] = ProcessBranchAlone(cfg, cfg.Branches[i], log[i]))
    /\ [][\A i \in Goroutines :
            ProcessBranch(i) =>
                /\ cfg' = cfg
                /\ \A k \in DOMAIN results :
                      k # frame[i].index => results'[k] = results[k]
                /\ results'[frame[i].index] # results[frame[i].index] =>
                      /\ results[frame[i].index] = Nil
                      /\ pc[i] # "done"
                      /\ pc'[i] = "done"]_vars

(* The second goroutine has written its slot while the first still runs    *)
(* and its slot is empty                                                   *)
C23_Witness ==
    /\ phase = "waiting"
    /\ Len(results) = 2
    /\ pc[2] = "done" /\ results[2] # Nil
    /\ Deref(results[2]).Branch = cfg.Branches[2]
    /\ pc[1] # "done" /\ results[1] = Nil
    /\ Len(log[1]) > 0

-----------------------------------------------------------------------------
(* C24: every Outcome with Success false has a non-empty ErrorMessage, and *)
(* every Outcome with Success true has Error unset and ErrorMessage empty. *)
(* Among the failures, Error is unset for the not-merged one and for no    *)
(* other: a GetPR that failed leaves its error in Error.                   *)
C24_ErrorMessageAndError ==
    \A i \in DOMAIN pc :
        Done(i) =>
            /\ ~Outcome(i).Success => Outcome(i).ErrorMessage # ""
            /\ Outcome(i).Success =>
                  (Outcome(i).Error = Nil /\ Outcome(i).ErrorMessage = "")
            /\ (~Outcome(i).Success /\ Outcome(i).Error = Nil) <=> NotMergedAnswer(i)
            /\ log[i][1].err # Nil =>
                  /\ ~Outcome(i).Success
                  /\ Outcome(i).Error = log[i][1].err
                  /\ Outcome(i).ErrorMessage
                        = "Failed to fetch PR #" \o ToString(cfg.PRNumber) \o ": "
                          \o Deref(log[i][1].err)

(* Two failures side by side: a change whose merged flag is absent, with   *)
(* Error unset, and a GetPR that failed, with Error set; their messages    *)
(* differ.                                                                 *)
C24_Witness ==
    /\ phase = "returned"
    /\ \E i, j \in DOMAIN pc :
         /\ NotMergedAnswer(i) /\ Deref(log[i][1].val).Merged = Nil
         /\ Outcome(i).Error = Nil /\ Outcome(i).ErrorMessage # ""
         /\ log[j][1].err # Nil /\ Outcome(j).Error # Nil
         /\ Outcome(j).ErrorMessage # Outcome(i).ErrorMessage

=============================================================================
